---------------------------- MODULE Spec2Model ----------------------------
(***************************************************************************)
(* Model of the essay grading pipeline of src/app.py:                      *)
(*   get_gemini_assessment, process_and_submit_essay and                   *)
(*   save_essay_submission, with the session fields they write.            *)
(*                                                                         *)
(* Python strings that the code inspects character by character (the text  *)
(* of a model response, an essay title) are sequences of one-character     *)
(* strings.  The rich-text content of the editor is a sequence of markup   *)
(* tokens ("<p>", "</p>", "<br>") and one-character strings.                *)
(***************************************************************************)
EXTENDS Integers, Sequences, FiniteSets, TLC

(***************************************************************************)
(* Python str and slice primitives                                         *)
(***************************************************************************)
Whitespace == {" ", "\n"}

Min(a, b) == IF a < b THEN a ELSE b
Max(a, b) == IF a > b THEN a ELSE b

\* s.lstrip() / s.rstrip() / s.strip()
RECURSIVE LStrip(_)
LStrip(s) == IF s # <<>> /\ Head(s) \in Whitespace THEN LStrip(Tail(s)) ELSE s

RECURSIVE RStrip(_)
RStrip(s) ==
    IF s # <<>> /\ s[Len(s)] \in Whitespace THEN RStrip(SubSeq(s, 1, Len(s) - 1)) ELSE s

Strip(s) == RStrip(LStrip(s))

\* s.startswith(p)
StartsWith(s, p) == Len(s) >= Len(p) /\ SubSeq(s, 1, Len(p)) = p

\* A slice bound of Python: a negative index counts from the end, and the
\* result is clamped to 0 .. len(s).
PyIndex(s, i) == IF i < 0 THEN Max(Len(s) + i, 0) ELSE Min(i, Len(s))

\* s[a:b] with 0-based Python bounds
PySlice(s, a, b) == SubSeq(s, PyIndex(s, a) + 1, PyIndex(s, b))

\* s.find(c): the 0-based index of the first c, or -1
Find(s, c) ==
    IF \E i \in 1..Len(s) : s[i] = c
    THEN (CHOOSE i \in 1..Len(s) : s[i] = c /\ \A j \in 1..(i - 1) : s[j] # c) - 1
    ELSE -1

\* s.rfind(c): the 0-based index of the last c, or -1
RFind(s, c) ==
    IF \E i \in 1..Len(s) : s[i] = c
    THEN (CHOOSE i \in 1..Len(s) : s[i] = c /\ \A j \in (i + 1)..Len(s) : s[j] # c) - 1
    ELSE -1

(***************************************************************************)
(* Python values.  A dict is a sequence of <<key, value>> pairs in         *)
(* insertion order, keys being character sequences.                        *)
(*   [t |-> "num",  n |-> Int]       an int                                *)
(*   [t |-> "str",  s |-> chars]     a str given character by character    *)
(*   [t |-> "msg",  m |-> STRING]    a str built by the code (a message)   *)
(*   [t |-> "dict", d |-> pairs]     a dict                                *)
(*   [t |-> "none"]                  None                                  *)
(***************************************************************************)
PyNone == [t |-> "none"]
PyNum(n) == [t |-> "num", n |-> n]
PyStr(s) == [t |-> "str", s |-> s]
PyMsg(m) == [t |-> "msg", m |-> m]
PyDict(d) == [t |-> "dict", d |-> d]

\* key in d
HasKey(d, k) == \E i \in 1..Len(d) : d[i][1] = k

\* d.get(k): the value under k, or None
DictGet(d, k) ==
    IF HasKey(d, k) THEN d[CHOOSE i \in 1..Len(d) : d[i][1] = k][2] ELSE PyNone

\* d[k] = v: a repeated key keeps its place and takes the last value
DictSet(d, k, v) ==
    IF HasKey(d, k)
    THEN [i \in 1..Len(d) |-> IF d[i][1] = k THEN <<k, v>> ELSE d[i]]
    ELSE Append(d, <<k, v>>)

(***************************************************************************)
(* json.loads, for the JSON texts of this model: objects, strings without  *)
(* escapes, integers, and whitespace between tokens.  A result is          *)
(* [ok, val, next]: next is the 1-based position after the value read.     *)
(***************************************************************************)
Digits == {"0", "1", "2", "3", "4", "5", "6", "7", "8", "9"}

DigitValue(c) ==
    CASE c = "0" -> 0 [] c = "1" -> 1 [] c = "2" -> 2 [] c = "3" -> 3 [] c = "4" -> 4
      [] c = "5" -> 5 [] c = "6" -> 6 [] c = "7" -> 7 [] c = "8" -> 8 [] c = "9" -> 9

JsonFail == [ok |-> FALSE, val |-> PyNone, next |-> 0]

RECURSIVE SkipWs(_, _)
SkipWs(s, i) == IF i <= Len(s) /\ s[i] \in Whitespace THEN SkipWs(s, i + 1) ELSE i

\* a string: the characters up to the next quote
ParseString(s, i) ==
    IF i <= Len(s) /\ s[i] = "\"" /\ \E j \in (i + 1)..Len(s) : s[j] = "\""
    THEN LET j == CHOOSE j \in (i + 1)..Len(s) :
                      s[j] = "\"" /\ \A k \in (i + 1)..(j - 1) : s[k] # "\""
         IN  [ok |-> TRUE, val |-> PyStr(SubSeq(s, i + 1, j - 1)), next |-> j + 1]
    ELSE JsonFail

RECURSIVE DigitsEnd(_, _)
DigitsEnd(s, i) == IF i <= Len(s) /\ s[i] \in Digits THEN DigitsEnd(s, i + 1) ELSE i

RECURSIVE DigitsValue(_, _, _, _)
DigitsValue(s, i, j, acc) ==
    IF i >= j THEN acc ELSE DigitsValue(s, i + 1, j, acc * 10 + DigitValue(s[i]))

\* an integer: an optional minus sign, then digits with no leading zero
ParseNumber(s, i) ==
    LET neg == i <= Len(s) /\ s[i] = "-"
        b == IF neg THEN i + 1 ELSE i
        e == DigitsEnd(s, b)
    IN  IF e = b \/ (e > b + 1 /\ s[b] = "0")
        THEN JsonFail
        ELSE [ok |-> TRUE,
              val |-> PyNum(IF neg THEN 0 - DigitsValue(s, b, e, 0)
                                   ELSE DigitsValue(s, b, e, 0)),
              next |-> e]

RECURSIVE ParseValue(_, _)
RECURSIVE ParseMembers(_, _, _)

\* the members of an object from position i on (after "{" or ","), d being
\* the pairs read so far
ParseMembers(s, i, d) ==
    LET k == ParseString(s, SkipWs(s, i))
    IN  IF ~k.ok THEN JsonFail
        ELSE LET c == SkipWs(s, k.next)
             IN  IF ~(c <= Len(s) /\ s[c] = ":") THEN JsonFail
                 ELSE LET v == ParseValue(s, SkipWs(s, c + 1))
                      IN  IF ~v.ok THEN JsonFail
                          ELSE LET e == SkipWs(s, v.next)
                                   d2 == DictSet(d, k.val.s, v.val)
                               IN  IF e > Len(s) THEN JsonFail
                                   ELSE IF s[e] = "}"
                                        THEN [ok |-> TRUE, val |-> PyDict(d2), next |-> e + 1]
                                   ELSE IF s[e] = ","
                                        THEN ParseMembers(s, e + 1, d2)
                                   ELSE JsonFail

ParseValue(s, i) ==
    IF i > Len(s) THEN JsonFail
    ELSE IF s[i] = "{"
         THEN LET j == SkipWs(s, i + 1)
              IN  IF j <= Len(s) /\ s[j] = "}"
                  THEN [ok |-> TRUE, val |-> PyDict(<<>>), next |-> j + 1]
                  ELSE ParseMembers(s, i + 1, <<>>)
    ELSE IF s[i] = "\"" THEN ParseString(s, i)
    ELSE ParseNumber(s, i)

\* json.loads(s): [ok |-> TRUE, val |-> the value], or ok = FALSE where
\* json.loads raises JSONDecodeError (no value, or text after the value)
WholeText(s, v) == IF v.ok /\ SkipWs(s, v.next) > Len(s) THEN v ELSE JsonFail

JsonLoads(s) == WholeText(s, ParseValue(s, SkipWs(s, 1)))


(***************************************************************************)
(* json.dumps, token by token: "{", key, ":", value, "," ... "}".          *)
(***************************************************************************)
Tok ==
    [LBrace |-> [k |-> "{"],
     RBrace |-> [k |-> "}"],
     Colon |-> [k |-> ":"],
     Comma |-> [k |-> ","]]
TokKey(name) == [k |-> "key", name |-> name]
TokAtom(v) == [k |-> "atom", v |-> v]

RECURSIVE Dumps(_)
RECURSIVE DumpsMembers(_, _)

\* the members d[i..] of a dict, separated by commas
DumpsMembers(d, i) ==
    IF i > Len(d) THEN <<>>
    ELSE (IF i > 1 THEN <<Tok.Comma>> ELSE <<>>)
         \o <<TokKey(d[i][1]), Tok.Colon>> \o Dumps(d[i][2])
         \o DumpsMembers(d, i + 1)

\* json.dumps(v)
Dumps(v) ==
    IF v.t = "dict"
    THEN <<Tok.LBrace>> \o DumpsMembers(v.d, 1) \o <<Tok.RBrace>>
    ELSE <<TokAtom(v)>>

(***************************************************************************)
(* Texts: the keys the code looks up, and the responses of the model.      *)
(***************************************************************************)
Key ==
    [Error |-> <<"e", "r", "r", "o", "r">>,
     RawResponse |-> <<"r", "a", "w", "_", "r", "e", "s", "p", "o", "n", "s", "e">>,
     OverallRating |-> <<"o", "v", "e", "r", "a", "l", "l", "_", "r", "a", "t", "i", "n", "g">>,
     WordCount |-> <<"w", "o", "r", "d", "_", "c", "o", "u", "n", "t">>,
     CriteriaScores |-> <<"c", "r", "i", "t", "e", "r", "i", "a", "_", "s", "c", "o", "r", "e", "s">>,
     Grammar |-> <<"g", "r", "a", "m", "m", "a", "r">>,
     Score |-> <<"s", "c", "o", "r", "e">>]

Quoted(s) == <<"\"">> \o s \o <<"\"">>
Member(k, v) == Quoted(k) \o <<":">> \o v
Object(ms) == <<"{">> \o ms \o <<"}">>

\* The backquote character (U+0060) is written "bq": the fence is three of them.
Backquote == "bq"
Fence == <<Backquote, Backquote, Backquote>>
FenceJson == Fence \o <<"j", "s", "o", "n">>

\* {"overall_rating":78}
ObjRated == Object(Member(Key.OverallRating, <<"7", "8">>))
\* {"word_count":5}
ObjNoRating == Object(Member(Key.WordCount, <<"5">>))
\* {"overall_rating":"A"}
ObjTextRating == Object(Member(Key.OverallRating, Quoted(<<"A">>)))
\* {"error":"x","overall_rating":78}
ObjErrorKey ==
    Object(Member(Key.Error, Quoted(<<"x">>)) \o <<",">> \o Member(Key.OverallRating, <<"7", "8">>))
\* {"criteria_scores":{"grammar":{"score":120}},"overall_rating":-5}
ObjOutOfRange ==
    Object(Member(Key.CriteriaScores, Object(Member(Key.Grammar, Object(Member(Key.Score, <<"1", "2", "0">>)))))
           \o <<",">> \o Member(Key.OverallRating, <<"-", "5">>))
\* {"overall_rating":}
TextBadValue == Object(Member(Key.OverallRating, <<>>))
\* {"overall_rating":78
TextUnclosed == <<"{">> \o Member(Key.OverallRating, <<"7", "8">>)
\* } {
TextReversed == <<"}", " ", "{">>
\* no braces at all
TextProse == <<"o", "k">>

\* {"error":"x","overall_rating":150}
ObjErrorOutOfRange ==
    Object(Member(Key.Error, Quoted(<<"x">>)) \o <<",">> \o Member(Key.OverallRating, <<"1", "5", "0">>))

Inner ==
    {ObjRated, ObjNoRating, ObjTextRating, ObjErrorKey, ObjOutOfRange,
     ObjErrorOutOfRange, TextBadValue, TextUnclosed, TextReversed, TextProse, <<>>}

\* the ways a response wraps its inner text
Bare(x) == x
Padded(x) == <<" ">> \o x \o <<"\n">>
FencedJson(x) == FenceJson \o <<"\n">> \o x \o <<"\n">> \o Fence
FencedPlain(x) == Fence \o <<"\n">> \o x \o <<"\n">> \o Fence
ProseThenFence(x) == <<"S", "u", "r", "e", "!", " ">> \o FencedJson(x)
OpenFenceOnly(x) == FenceJson \o x

ResponseTexts ==
    UNION {{Bare(x), Padded(x), FencedJson(x), FencedPlain(x), ProseThenFence(x),
            OpenFenceOnly(x)} : x \in Inner}


(***************************************************************************)
(* get_gemini_assessment.  The behaviour m of the external model is an     *)
(* input: what each of the three generate_content calls does, and what     *)
(* reading .text of the response does.                                     *)
(*   m.first  : "raises" | "text" | "no_text" | "text_raises"              *)
(*   m.second : "raises" | "returns"                                       *)
(*   m.third  : "raises" | "text" | "no_text" | "text_raises" | "text_none"*)
(*   m.text   : the text of the third response (when m.third = "text")     *)
(*   m.prompt_feedback : the third response has a prompt_feedback attribute*)
(* "no_text": the response has no text attribute (AttributeError);         *)
(* "text_raises": reading .text raises another error (a blocked response   *)
(* raises ValueError), which hasattr does not swallow.                     *)
(***************************************************************************)
AiMsg ==
    [FormatIssue |-> PyMsg("AI feedback format issue."),
     ParsingError |-> PyMsg("AI feedback parsing error: <e>"),
     TextMissing |-> PyMsg("AI response text is empty or missing."),
     Exception |-> PyMsg("<e>"),
     ApiError |-> PyMsg("AI API error: <e>"),
     ApiErrorFeedback |-> PyMsg("AI API error: <e> | Prompt Feedback: <prompt_feedback>"),
     NoRaw |-> PyMsg("Could not get raw response due to an early error."),
     NotADict |-> PyMsg("AI feedback data is not a valid structure or was None.")]

\* lines 430-433: the fence removal, which rebinds response_text
StripFence(response_text) ==
    IF StartsWith(Strip(response_text), FenceJson)
    THEN Strip(PySlice(Strip(response_text), 7, -3))
    ELSE IF StartsWith(Strip(response_text), Fence)
         THEN Strip(PySlice(Strip(response_text), 3, -3))
         ELSE response_text

\* lines 434-435
JsonStartIndex(text) == Find(text, "{")
JsonEndIndex(text) == RFind(text, "}") + 1

\* line 436
BracesFound(text) == JsonStartIndex(text) # -1 /\ JsonEndIndex(text) # -1

\* line 437
JsonString(text) == PySlice(text, JsonStartIndex(text), JsonEndIndex(text))

ErrorDict(error, raw) == PyDict(<< <<Key.Error, error>>, <<Key.RawResponse, raw>> >>)

\* lines 429-451: from the text of the response to the returned dict, with
\* the texts handed to json.loads on the way
ParsedOrError(text, json_string, parsed) ==
    [value |-> IF parsed.ok THEN parsed.val ELSE ErrorDict(AiMsg.ParsingError, PyStr(text)),
     loads |-> <<json_string>>]

ParseStripped(text) ==
    IF BracesFound(text)
    THEN ParsedOrError(text, JsonString(text), JsonLoads(JsonString(text)))
    ELSE [value |-> ErrorDict(AiMsg.FormatIssue, PyStr(text)), loads |-> <<>>]

ParseResponse(response_text) == ParseStripped(StripFence(response_text))

\* lines 453-468 with raw_resp_info left at None
ExceptHandlerRawNone(m) ==
    IF m.third = "raises"
    THEN ErrorDict(AiMsg.Exception, PyNone)
    ELSE ErrorDict(IF m.prompt_feedback THEN AiMsg.ApiErrorFeedback ELSE AiMsg.ApiError, PyNone)

\* lines 453-468: the handler of an exception raised inside the try, the
\* response object existing (the call returned) or not
ExceptHandler(m) ==
    IF m.third = "raises"
    THEN ErrorDict(AiMsg.Exception, AiMsg.NoRaw)
    ELSE ErrorDict(IF m.prompt_feedback THEN AiMsg.ApiErrorFeedback ELSE AiMsg.ApiError, AiMsg.NoRaw)

Raised(at, ncalls) ==
    [raised |-> TRUE, at |-> at, value |-> PyNone, ncalls |-> ncalls, loads |-> <<>>]

Returned(value, loads) ==
    [raised |-> FALSE, at |-> "", value |-> value, ncalls |-> 3, loads |-> loads]

ReturnedParsed(r) == Returned(r.value, r.loads)

\* lines 378-468.  ncalls counts the generate_content invocations made.
get_gemini_assessment(m) ==
    IF m.first = "raises" THEN Raised("line 414", 1)
    ELSE IF m.first = "text_raises" THEN Raised("line 415", 1)
    ELSE IF m.second = "raises" THEN Raised("line 418", 2)
    ELSE IF m.third \in {"raises", "no_text"} THEN Returned(ExceptHandler(m), <<>>)
    ELSE IF m.third = "text_raises" THEN Raised("line 465", 3)
    ELSE IF m.third = "text_none"
         THEN Returned(PyDict(<< <<Key.Error, AiMsg.TextMissing>> >>), <<>>)
    ELSE ReturnedParsed(ParseResponse(m.text))


(***************************************************************************)
(* markdownify (line 485), token by token: a paragraph ends in a blank     *)
(* line, a line break becomes two spaces and a newline, text is kept.      *)
(***************************************************************************)
RECURSIVE md(_)
md(html) ==
    IF html = <<>> THEN <<>>
    ELSE (CASE Head(html) = "<p>" -> <<>>
            [] Head(html) = "</p>" -> <<"\n", "\n">>
            [] Head(html) = "<br>" -> <<" ", " ", "\n">>
            [] OTHER -> <<Head(html)>>) \o md(Tail(html))

\* line 483 without the comparison with "<p><br></p>"
ContentPresentNoMarker(html) ==
    /\ html # <<>>
    /\ Strip(html) # <<"<p>", "</p>">>

\* line 483: the content is neither empty nor one of the editor's empty
\* paragraphs
ContentPresent(html) ==
    /\ html # <<>>
    /\ html # <<"<p>", "<br>", "</p>">>
    /\ Strip(html) # <<"<p>", "</p>">>

\* line 488
ConversionFallback == <<"<i>Error converting content.</i>">>

\* lines 484-489
EssayMarkdown(html, md_raises) == IF md_raises THEN ConversionFallback ELSE md(html)

(***************************************************************************)
(* calculate_word_count, lines 374-375, and the word count the essay view  *)
(* shows, lines 1031-1032.  str.split() without a separator: whitespace    *)
(* is skipped, then a word runs up to the next whitespace or the end.      *)
(***************************************************************************)
\* the index after the word that starts at s[i]
RECURSIVE WordEnd(_, _)
WordEnd(s, i) == IF i > Len(s) \/ s[i] \in Whitespace THEN i ELSE WordEnd(s, i + 1)

\* s.split(), from index i on
RECURSIVE Split(_, _)
Split(s, i) ==
    IF i > Len(s) THEN <<>>
    ELSE IF s[i] \in Whitespace THEN Split(s, i + 1)
    ELSE <<SubSeq(s, i, WordEnd(s, i) - 1)>> \o Split(s, WordEnd(s, i))

\* s.split(" "): every single space separates, empty words are kept
RECURSIVE SplitAtSpace(_, _)
SplitAtSpace(s, i) ==
    IF i > Len(s) THEN <<SubSeq(s, 1, 0)>>
    ELSE IF s[i] = " " THEN <<SubSeq(s, 1, 0)>> \o SplitAtSpace(s, i + 1)
    ELSE SplitAtSpace(s, i + 1)

\* lines 374-375 with text.split(" ")
calculate_word_count_single_space(text) == IF text # <<>> THEN Len(SplitAtSpace(text, 1)) ELSE 0

\* lines 374-375
calculate_word_count(text) == IF text # <<>> THEN Len(Split(text, 1)) ELSE 0

\* line 1031: what the essay view counts the words of
TempMarkdownForWc(essay_html_content) ==
    IF ContentPresent(essay_html_content) THEN md(essay_html_content) ELSE <<>>

(***************************************************************************)
(* Messages shown with st.error, st.warning and st.success                 *)
(***************************************************************************)
StError(text) == [kind |-> "error", text |-> text]
StWarning(text) == [kind |-> "warning", text |-> text]
StSuccess(text) == [kind |-> "success", text |-> text]

StMsg ==
    [NoUser |-> StError("Could not save essay: User session issue. Please try logging out and in again."),
     NoTitle |-> StWarning("Please add a title before submitting your essay."),
     NoContent |-> StWarning("Essay content cannot be empty for submission."),
     Formatting |-> StWarning("Could not process essay formatting, submitting as plain text."),
     Assessed |-> StSuccess("Essay submitted and assessed successfully!"),
     FeedbackIssue |-> StError("There was an issue processing the AI feedback. Your essay was saved, but feedback may be missing."),
     Unexpected |-> StError("An unexpected issue occurred with AI feedback. Your essay was saved, but feedback may be missing."),
     SaveNoUser |-> StError("Cannot save essay: User ID is not available. Please log out and log in again."),
     DbConnect |-> StError("Could not connect to the database. Please contact support if this persists."),
     SaveNoConnection |-> StError("Failed to save essay: Database connection error."),
     SaveFailed |-> StError("Failed to save essay submission."),
     LoggedIn |-> StSuccess("Logged in successfully!"),
     InvalidLogin |-> StError("Invalid username or password"),
     AuthError |-> StError("An authentication error occurred. Please try again."),
     LoggedOut |-> StSuccess("Logged out."),
     FillAll |-> StWarning("Please fill all fields."),
     ShortPassword |-> StWarning("Password should be at least 6 characters long."),
     Created |-> "Account created successfully. Please log in.",
     CreateNoConnection |-> "Database error during user creation.",
     UsernameExists |-> "Username already exists.",
     CreateFailed |-> "An error occurred during account creation."]

(***************************************************************************)
(* save_essay_submission, lines 266-298.  db is what the database does:    *)
(* "ok", "no_connection" (get_db_connection returns None) or               *)
(* "insert_raises" (execute or commit raises).                             *)
(***************************************************************************)
\* line 287: isinstance(overall_rating, (int, float))
IsNumber(v) == v.t = "num"

DbOverallRating(overall_rating) == IF IsNumber(overall_rating) THEN overall_rating ELSE PyNone

EssayRow(rows, time, student_user_id, title, content_markdown, feedback, overall_rating) ==
    [id |-> Len(rows) + 1,
     student_user_id |-> student_user_id,
     title |-> title,
     content_markdown |-> content_markdown,
     submission_time |-> time,
     ai_feedback_json |-> feedback,
     overall_rating |-> DbOverallRating(overall_rating)]

\* lines 266-298 with an INSERT that replaces the row the student has under
\* the same title
save_essay_submission_upsert(rows, time, db, student_user_id, title, content_markdown, ai_feedback_json_str, overall_rating) ==
    IF db # "ok" THEN [ok |-> FALSE, rows |-> rows, messages |-> <<StMsg.SaveFailed>>]
    ELSE IF \E i \in 1..Len(rows) : rows[i].student_user_id = student_user_id /\ rows[i].title = title
    THEN [ok |-> TRUE,
          rows |-> [i \in 1..Len(rows) |->
                      IF rows[i].student_user_id = student_user_id /\ rows[i].title = title
                      THEN [rows[i] EXCEPT !.content_markdown = content_markdown,
                                           !.submission_time = time,
                                           !.ai_feedback_json = ai_feedback_json_str,
                                           !.overall_rating = DbOverallRating(overall_rating)]
                      ELSE rows[i]],
          messages |-> <<>>]
    ELSE [ok |-> TRUE,
          rows |-> Append(rows, EssayRow(rows, time, student_user_id, title,
                                         content_markdown, ai_feedback_json_str,
                                         overall_rating)),
          messages |-> <<>>]

save_essay_submission(rows, time, db, student_user_id, title, content_markdown, ai_feedback_json_str, overall_rating) ==
    IF student_user_id = PyNone
    THEN [ok |-> FALSE, rows |-> rows, messages |-> <<StMsg.SaveNoUser>>]
    ELSE IF db = "no_connection"
    THEN [ok |-> FALSE, rows |-> rows, messages |-> <<StMsg.DbConnect, StMsg.SaveNoConnection>>]
    ELSE IF db = "insert_raises"
    THEN [ok |-> FALSE, rows |-> rows, messages |-> <<StMsg.SaveFailed>>]
    ELSE [ok |-> TRUE,
          rows |-> Append(rows, EssayRow(rows, time, student_user_id, title,
                                         content_markdown, ai_feedback_json_str,
                                         overall_rating)),
          messages |-> <<>>]


(***************************************************************************)
(* State                                                                   *)
(***************************************************************************)
VARIABLES
    pc,                 \* "ready": the call is about to be made; "done": it ended
    input,              \* the arguments of the call and what the environment does
    now,                \* datetime.now()
    essays,             \* the rows of the essays table, in insertion order
    essay_started,      \* st.session_state.essay_started
    timer_start_time,   \* st.session_state.timer_start_time
    essay_title_input,  \* st.session_state.essay_title_input
    essay_content_html, \* st.session_state.essay_content_html
    view,               \* st.session_state.view
    messages,           \* the st.error / st.warning / st.success calls of the run
    events,             \* the external calls of the run, in order
    ai_feedback_data,   \* what get_gemini_assessment returned (None before it did)
    loads,              \* the texts handed to json.loads
    ended,              \* how the run ended: "return", "rerun" or "exception"
    script,             \* the locals of the essay view: time_remaining, the button, the value
                        \* the editor was given, essay_html_content, word_count
    time_up_warning,    \* the last run of the essay view showed the warning of line 1053
    proc,               \* per student, the locals of a running process_and_submit_essay
    listing,            \* what get_student_essays returned last, and for whom
    report,             \* what get_college_reports returned last, and for which college
    account,            \* st.session_state: logged_in, user_type, current_username,
                        \* current_user_id, current_college_name
    users               \* the rows of the users table, in insertion order

\* what the essay view keeps besides the session
view_vars == <<script, time_up_warning>>

\* who is logged in, and the accounts there are
auth_vars == <<account, users>>

\* what concurrent sessions keep besides the essays table and the clock
store_vars == <<proc, listing, report>>

vars ==
    <<pc, input, now, essays, essay_started, timer_start_time, essay_title_input,
      essay_content_html, view, messages, events, ai_feedback_data, loads, ended,
      script, time_up_warning, proc, listing, report, account, users>>

\* lines 121-129: a row of the users table; the hash of a password is kept
\* as the password it was made of, check_password_hash compares with it
UserRow(id, username, password, user_type, college_name) ==
    [id |-> PyNum(id), username |-> username, password_hash |-> [of |-> password],
     user_type |-> user_type, college_name |-> college_name]

\* the users table with two students, of two colleges
Users ==
    <<UserRow(1, "s1", <<"s", "e", "c", "r", "e", "t">>, "student", "c1"),
      UserRow(2, "s2", <<"s", "e", "c", "r", "e", "t">>, "student", "c2")>>

\* lines 171-175: the session of a student who is logged in
StudentAccount(user) ==
    [logged_in |-> TRUE, user_type |-> user.user_type, current_username |-> user.username,
     current_user_id |-> user.id, current_college_name |-> user.college_name]

\* lines 570, 578, 597, 604, 669, 685, 723, 876: the branch of the script
\* taken for a logged-in user of the given type
LoggedInAs(user_type) == account.logged_in /\ account.user_type = user_type

session == <<essay_started, timer_start_time, essay_title_input, essay_content_html, view>>

\* no script of the essay view is running
NoScript ==
    [time_remaining |-> 0, button |-> FALSE, value |-> <<>>, essay_html_content |-> <<>>,
     word_count |-> 0]

(***************************************************************************)
(* Bounds and inputs                                                       *)
(***************************************************************************)
NumStudents == 1

StudentIds == {PyNone} \cup {PyNum(i) : i \in 1..NumStudents}

Titles == {<<>>, <<" ">>, <<" ", "\n">>, <<"T">>, <<" ", "T", " ">>}

Contents ==
    {<<>>,
     <<"<p>", "<br>", "</p>">>,
     <<"<p>", "</p>">>,
     <<" ", "<p>", "</p>", "\n">>,
     <<" ">>,
     <<"<p>", " ", "</p>">>,
     <<"<p>", "H", "i", "</p>">>,
     <<"H", "i">>}

Behaviour(first, second, third, text, prompt_feedback) ==
    [first |-> first, second |-> second, third |-> third, text |-> text,
     prompt_feedback |-> prompt_feedback]

\* A call that raises before the try ends the function: what the later calls
\* would have done is left out.
ModelBehaviours ==
    {Behaviour("raises", "returns", "raises", <<>>, FALSE),
     Behaviour("text_raises", "returns", "raises", <<>>, FALSE)}
    \cup {Behaviour(f, "raises", "raises", <<>>, FALSE) : f \in {"text", "no_text"}}
    \cup {Behaviour(f, "returns", "raises", <<>>, FALSE) : f \in {"text", "no_text"}}
    \cup {Behaviour(f, "returns", t, <<>>, pf) :
            f \in {"text", "no_text"}, t \in {"no_text", "text_raises"}, pf \in BOOLEAN}
    \cup {Behaviour(f, "returns", "text_none", <<>>, FALSE) : f \in {"text", "no_text"}}
    \cup {Behaviour(f, "returns", "text", x, FALSE) :
            f \in {"text", "no_text"}, x \in ResponseTexts}

DbBehaviours == {"ok", "no_connection", "insert_raises"}

Inputs ==
    [student_user_id : StudentIds, title : Titles, html : Contents,
     md_raises : BOOLEAN, model : ModelBehaviours, db : DbBehaviours]

(***************************************************************************)
(* process_and_submit_essay, lines 471-546                                 *)
(***************************************************************************)
GenerateContent(title, essay_markdown) ==
    [op |-> "generate_content", title |-> title, essay |-> essay_markdown]

SaveEssaySubmission(student_user_id, title, essay_markdown, feedback, overall_rating) ==
    [op |-> "save_essay_submission", student_user_id |-> student_user_id,
     title |-> title, essay |-> essay_markdown, feedback |-> feedback,
     overall_rating |-> overall_rating]

\* lines 472-492 with the early returns going through the reset of lines
\* 539-546
RejectedAndReset(message) ==
    /\ messages' = <<message>>
    /\ ended' = "rerun"
    /\ essay_started' = FALSE
    /\ timer_start_time' = PyNone
    /\ essay_title_input' = <<>>
    /\ essay_content_html' = <<>>
    /\ view' = "student_dashboard"
    /\ UNCHANGED <<now, essays, events, ai_feedback_data, loads>>

\* lines 472-492: the early returns, nothing else touched
Rejected(message) ==
    /\ messages' = <<message>>
    /\ ended' = "return"
    /\ UNCHANGED <<now, essays, session, events, ai_feedback_data, loads>>

\* lines 502-528: the feedback string, the rating and the message
IsDict(data) == data.t = "dict"

FeedbackJsonStr(data) ==
    IF IsDict(data) THEN Dumps(data) ELSE Dumps(PyDict(<< <<Key.Error, AiMsg.NotADict>> >>))

OverallRating(data) ==
    IF IsDict(data) /\ ~HasKey(data.d, Key.Error) THEN DictGet(data.d, Key.OverallRating) ELSE PyNone

FeedbackMessage(data) ==
    IF ~IsDict(data) THEN StMsg.Unexpected
    ELSE IF HasKey(data.d, Key.Error) THEN StMsg.FeedbackIssue ELSE StMsg.Assessed

\* lines 494-546 with the save of line 535 moved before the assessment of
\* line 496, the feedback not yet known
AssessWriteFirst(student_user_id, title, html, env) ==
    LET essay_markdown == EssayMarkdown(html, env.md_raises)
        warned == IF env.md_raises THEN <<StMsg.Formatting>> ELSE <<>>
        a == get_gemini_assessment(env.model)
        called == [i \in 1..a.ncalls |-> GenerateContent(title, essay_markdown)]
        saved == save_essay_submission(essays, now, env.db, student_user_id, title,
                     essay_markdown, FeedbackJsonStr(PyNone), PyNone)
    IN  /\ ai_feedback_data' = a.value
        /\ loads' = a.loads
        /\ messages' = warned \o saved.messages
                \o (IF a.raised THEN <<>> ELSE <<FeedbackMessage(a.value)>>)
        /\ events' = <<SaveEssaySubmission(student_user_id, title, essay_markdown,
                          FeedbackJsonStr(PyNone), PyNone)>> \o called
        /\ essays' = saved.rows
        /\ essay_started' = FALSE
        /\ timer_start_time' = PyNone
        /\ essay_title_input' = <<>>
        /\ essay_content_html' = <<>>
        /\ view' = "student_dashboard"
        /\ ended' = IF a.raised THEN "exception" ELSE "rerun"
        /\ UNCHANGED now

\* lines 494-546 with the reset of lines 539-546 made only after a save that
\* returned True
AssessAndSaveKeepDraft(student_user_id, title, essay_markdown, a, env) ==
    LET warned == IF env.md_raises THEN <<StMsg.Formatting>> ELSE <<>>
        called == [i \in 1..a.ncalls |-> GenerateContent(title, essay_markdown)]
        saved == save_essay_submission(essays, now, env.db, student_user_id,
                     title, essay_markdown, FeedbackJsonStr(a.value),
                     OverallRating(a.value))
    IN  IF a.raised
        THEN /\ messages' = warned
             /\ events' = called
             /\ ended' = "exception"
             /\ UNCHANGED <<now, essays, session, ai_feedback_data, loads>>
        ELSE /\ ai_feedback_data' = a.value
             /\ loads' = a.loads
             /\ messages' = warned \o <<FeedbackMessage(a.value)>> \o saved.messages
             /\ events' = Append(called,
                    SaveEssaySubmission(student_user_id, title, essay_markdown,
                        FeedbackJsonStr(a.value), OverallRating(a.value)))
             /\ essays' = saved.rows
             /\ essay_started' = ~saved.ok
             /\ timer_start_time' = (IF saved.ok THEN PyNone ELSE timer_start_time)
             /\ essay_title_input' = (IF saved.ok THEN <<>> ELSE essay_title_input)
             /\ essay_content_html' = (IF saved.ok THEN <<>> ELSE essay_content_html)
             /\ view' = (IF saved.ok THEN "student_dashboard" ELSE view)
             /\ ended' = (IF saved.ok THEN "rerun" ELSE "return")
             /\ UNCHANGED now

\* lines 494-546: the assessment, the save and the reset
AssessAndSave(student_user_id, title, essay_markdown, a, env) ==
    LET warned == IF env.md_raises THEN <<StMsg.Formatting>> ELSE <<>>
        called == [i \in 1..a.ncalls |-> GenerateContent(title, essay_markdown)]
    IN  IF a.raised
        THEN /\ messages' = warned
             /\ events' = called
             /\ ended' = "exception"
             /\ UNCHANGED <<now, essays, session, ai_feedback_data, loads>>
        ELSE LET saved == save_essay_submission(essays, now, env.db, student_user_id,
                              title, essay_markdown, FeedbackJsonStr(a.value),
                              OverallRating(a.value))
             IN  /\ ai_feedback_data' = a.value
                 /\ loads' = a.loads
                 /\ messages' = warned \o <<FeedbackMessage(a.value)>> \o saved.messages
                 /\ events' = Append(called,
                        SaveEssaySubmission(student_user_id, title, essay_markdown,
                            FeedbackJsonStr(a.value), OverallRating(a.value)))
                 /\ essays' = saved.rows
                 /\ essay_started' = FALSE
                 /\ timer_start_time' = PyNone
                 /\ essay_title_input' = <<>>
                 /\ essay_content_html' = <<>>
                 /\ view' = "student_dashboard"
                 /\ ended' = "rerun"
                 /\ UNCHANGED now

Assess(student_user_id, title, html, env) ==
    AssessAndSave(student_user_id, title, EssayMarkdown(html, env.md_raises),
                  get_gemini_assessment(env.model), env)

\* lines 471-546 without the reset of lines 539-546
process_and_submit_essay_no_reset(student_user_id, title, essay_content_html_param, env) ==
    IF student_user_id = PyNone THEN Rejected(StMsg.NoUser)
    ELSE IF Strip(title) = <<>> THEN Rejected(StMsg.NoTitle)
    ELSE IF ~ContentPresent(essay_content_html_param) THEN Rejected(StMsg.NoContent)
    ELSE LET essay_markdown == EssayMarkdown(essay_content_html_param, env.md_raises)
             a == get_gemini_assessment(env.model)
             warned == IF env.md_raises THEN <<StMsg.Formatting>> ELSE <<>>
             called == [i \in 1..a.ncalls |-> GenerateContent(title, essay_markdown)]
             saved == save_essay_submission(essays, now, env.db, student_user_id,
                          title, essay_markdown, FeedbackJsonStr(a.value),
                          OverallRating(a.value))
         IN  IF a.raised
             THEN /\ messages' = warned
                  /\ events' = called
                  /\ ended' = "exception"
                  /\ UNCHANGED <<now, essays, session, ai_feedback_data, loads>>
             ELSE /\ ai_feedback_data' = a.value
                  /\ loads' = a.loads
                  /\ messages' = warned \o <<FeedbackMessage(a.value)>> \o saved.messages
                  /\ events' = Append(called,
                         SaveEssaySubmission(student_user_id, title, essay_markdown,
                             FeedbackJsonStr(a.value), OverallRating(a.value)))
                  /\ essays' = saved.rows
                  /\ ended' = "return"
                  /\ UNCHANGED <<now, session>>

process_and_submit_essay(student_user_id, title, essay_content_html_param, env) ==
    IF student_user_id = PyNone THEN Rejected(StMsg.NoUser)
    ELSE IF Strip(title) = <<>> THEN Rejected(StMsg.NoTitle)
    ELSE IF ~ContentPresent(essay_content_html_param) THEN Rejected(StMsg.NoContent)
    ELSE Assess(student_user_id, title, essay_content_html_param, env)

(***************************************************************************)
(* One call of process_and_submit_essay from the essay view (lines 1042    *)
(* and 1056): the essay is started, the session holds the title and the    *)
(* content that are passed.                                                *)
(***************************************************************************)
Init ==
    /\ pc = "ready"
    /\ input \in Inputs
    /\ now = 1
    /\ essays = <<>>
    /\ essay_started = TRUE
    /\ timer_start_time = PyNum(0)
    /\ essay_title_input = input.title
    /\ essay_content_html = input.html
    /\ view = "student_essay"
    /\ messages = <<>>
    /\ events = <<>>
    /\ ai_feedback_data = PyNone
    /\ loads = <<>>
    /\ ended = ""
    /\ script = NoScript
    /\ time_up_warning = FALSE
    /\ proc = <<>>
    /\ listing = <<>>
    /\ report = <<>>
    /\ account = [StudentAccount(Users[1]) EXCEPT !.current_user_id = input.student_user_id]
    /\ users = Users

Call ==
    /\ pc = "ready"
    /\ pc' = "done"
    /\ UNCHANGED <<input, auth_vars, view_vars, store_vars>>
    /\ process_and_submit_essay(input.student_user_id, input.title, input.html, input)

Next == Call

Spec == Init /\ [][Next]_vars


(***************************************************************************)
(* What a finished run shows                                               *)
(***************************************************************************)
Done == pc = "done"

\* the generate_content invocations and the save_essay_submission calls
ModelCalls == SelectSeq(events, LAMBDA e : e.op = "generate_content")
SaveCalls == SelectSeq(events, LAMBDA e : e.op = "save_essay_submission")

Shown(message) == \E i \in 1..Len(messages) : messages[i] = message

\* the outcome process_and_submit_essay reports, read from its own message
Outcome ==
    IF Shown(StMsg.Assessed) THEN "graded"
    ELSE IF Shown(StMsg.FeedbackIssue) \/ Shown(StMsg.Unexpected) THEN "savedUngraded"
    ELSE IF Shown(StMsg.NoTitle) \/ Shown(StMsg.NoContent) THEN "rejectedEmpty"
    ELSE IF Shown(StMsg.NoUser) THEN "rejectedNoUser"
    ELSE "none"

(***************************************************************************)
(* Claims                                                                  *)
(***************************************************************************)
MarkupTokens == {"<p>", "</p>", "<br>"}

\* the content holds some text that is neither markup nor whitespace
HasText(html) == \E i \in 1..Len(html) : html[i] \notin MarkupTokens \cup Whitespace

\* empty, whitespace-only, or an empty paragraph of the editor
BlankContent(html) == Strip(html) \in {<<>>, <<"<p>", "<br>", "</p>">>, <<"<p>", "</p>">>}

\* a student id, a title that is non-empty after trim, and non-empty content
ValidSubmission ==
    /\ input.student_user_id # PyNone
    /\ Strip(input.title) # <<>>
    /\ HasText(input.html)

\* some generate_content invocation of the run raised
ModelCallRaised ==
    \/ input.model.first = "raises"
    \/ /\ input.model.first \in {"text", "no_text"}
       /\ \/ input.model.second = "raises"
          \/ input.model.third = "raises"

\* the run read the text of the response it parses
GotText == Done /\ ended = "rerun" /\ input.model.third = "text"

\* status ok: the call succeeded and a JSON object was parsed from the response
StatusOk == GotText /\ loads # <<>> /\ JsonLoads(loads[1]).ok

\* C1: a call with a student id, a title that is non-empty after trim and
\* non-empty content calls save_essay_submission exactly once, whatever the
\* model call does (valid JSON, malformed text, an error raised).
C1_SavedExactlyOnce == (Done /\ ValidSubmission) => Len(SaveCalls) = 1

\* C2: get_gemini_assessment never lets an exception reach its caller: no run
\* of process_and_submit_essay ends in an exception, whichever model
\* invocation or read of the response text fails.
C2_NoExceptionEscapes == (Done /\ ValidSubmission) => ended # "exception"

\* C3: when save_essay_submission fails (no connection, or the insert raises),
\* what process_and_submit_essay reports differs from what it reports after a
\* successful save (graded or savedUngraded, then the rerun to the dashboard).
C3_WriteFailureReported ==
    (Done /\ ValidSubmission /\ SaveCalls # <<>> /\ input.db # "ok")
        => ~(Outcome \in {"graded", "savedUngraded"} /\ ended = "rerun"
             /\ view = "student_dashboard")

\* C4: a call whose title is empty or whitespace-only, or whose content is
\* empty, whitespace-only or an empty paragraph of the editor, never calls
\* save_essay_submission.
C4_BlankNeverSaved ==
    (Done /\ (Strip(input.title) = <<>> \/ BlankContent(input.html))) => SaveCalls = <<>>

\* C5: one execution for a valid submission invokes generate_content exactly
\* once, whether that invocation succeeds or fails.
C5_OneModelInvocation == (Done /\ ValidSubmission) => Len(ModelCalls) = 1

\* C6: the rating stored with the essay equals the parsed overall_rating
\* exactly when the status is ok and the parsed object holds a numeric
\* overall_rating; in every other case the stored rating is null.
C6_StoredRating ==
    (Done /\ ValidSubmission /\ essays # <<>>)
        => LET stored == essays[Len(essays)].overall_rating
               parsed == IF StatusOk
                         THEN DictGet(JsonLoads(loads[1]).val.d, Key.OverallRating)
                         ELSE PyNone
           IN  stored = IF IsNumber(parsed) THEN parsed ELSE PyNone

\* C7: of the runs that reach the store write, the outcome is graded exactly
\* when the status is ok, whatever keys the parsed object has, and
\* savedUngraded otherwise.
C7_OutcomeFollowsStatus ==
    (Done /\ ValidSubmission /\ SaveCalls # <<>>)
        => Outcome = IF StatusOk THEN "graded" ELSE "savedUngraded"

\* s ends with p
EndsWith(s, p) == Len(s) >= Len(p) /\ SubSeq(s, Len(s) - Len(p) + 1, Len(s)) = p

\* s without its first a characters
PySliceFrom(s, a) == SubSeq(s, Min(a, Len(s)) + 1, Len(s))

\* the text C8 describes: a leading fence is removed only if the response
\* begins with one, a trailing fence only if it ends with one, and the rest
\* is cut from the first "{" to the last "}"
UnfencedAsClaimed(raw) ==
    LET s == Strip(raw)
        a == IF StartsWith(s, FenceJson) THEN PySliceFrom(s, 7)
             ELSE IF StartsWith(s, Fence) THEN PySliceFrom(s, 3)
             ELSE s
    IN  IF EndsWith(a, Fence) THEN SubSeq(a, 1, Len(a) - 3) ELSE a

LoadsAsClaimed(raw) ==
    LET t == UnfencedAsClaimed(raw)
    IN  IF Find(t, "{") # -1
        THEN <<PySlice(t, Find(t, "{"), RFind(t, "}") + 1)>>
        ELSE <<>>

\* C8: on a successful model call the text handed to json.loads is the
\* response without its leading fence (if it begins with one) and without its
\* trailing fence (if it ends with one), cut from the first "{" to the last
\* "}"; no other character is removed.  Stated for the responses in which a
\* "{" comes before a "}" once the fences are taken off.
C8_TextHandedToParser ==
    (GotText /\ ValidSubmission /\ LoadsAsClaimed(input.model.text) \notin {<<>>, << <<>> >>})
        => loads = LoadsAsClaimed(input.model.text)

\* the response holds no "{" or no "}", or the text between its first "{" and
\* its last "}" is not valid JSON
NoJsonIn(raw) ==
    \/ Find(raw, "{") = -1
    \/ RFind(raw, "}") = -1
    \/ ~JsonLoads(PySlice(raw, Find(raw, "{"), RFind(raw, "}") + 1)).ok

\* C9: for a response with no "{" or no "}", or whose brace slice is not valid
\* JSON, get_gemini_assessment returns an error dict whose raw_response is the
\* raw text the model returned.
C9_ParseErrorKeepsRawText ==
    (GotText /\ ValidSubmission /\ NoJsonIn(input.model.text))
        => /\ HasKey(ai_feedback_data.d, Key.Error)
           /\ DictGet(ai_feedback_data.d, Key.RawResponse) = PyStr(input.model.text)

\* the feedback string is a JSON object with the single key "error"
ErrorOnly(feedback) ==
    /\ Len(feedback) = 5
    /\ feedback[1] = Tok.LBrace
    /\ feedback[2] = TokKey(Key.Error)
    /\ feedback[5] = Tok.RBrace

\* C10: when the model call raises, the essay is still saved, the stored
\* feedback is a JSON object holding the error message under "error" and
\* nothing else, the stored rating is null and the outcome is savedUngraded.
C10_RaisedCallStillSaved ==
    (Done /\ ValidSubmission /\ ModelCallRaised)
        => /\ Len(SaveCalls) = 1
           /\ ErrorOnly(SaveCalls[1].feedback)
           /\ SaveCalls[1].overall_rating = PyNone
           /\ Outcome = "savedUngraded"


\* C11: a submission that process_and_submit_essay rejects because the title
\* is empty or the content equals the editor's empty-paragraph marker stops
\* before any side effect: no model invocation, no store write, and the
\* outcome is rejectedEmpty.
EmptyParagraph == <<"<p>", "<br>", "</p>">>

RejectedEmpty ==
    /\ input.student_user_id # PyNone
    /\ (Strip(input.title) = <<>> \/ input.html = EmptyParagraph)

C11_RejectedBeforeSideEffects ==
    (Done /\ RejectedEmpty)
        => /\ ModelCalls = <<>>
           /\ SaveCalls = <<>>
           /\ essays = <<>>
           /\ Outcome = "rejectedEmpty"

\* the marker is submitted under a title, the model and the store being ready
C11_Witness ==
    /\ Done
    /\ input.student_user_id # PyNone
    /\ Strip(input.title) # <<>>
    /\ input.html = EmptyParagraph
    /\ input.model.third = "text"
    /\ input.db = "ok"
    /\ Outcome = "rejectedEmpty"


\* C12: for a response made of leading prose followed by a json fenced block
\* that contains a valid JSON object, get_gemini_assessment returns the
\* parsed object and the outcome of the submission is graded.
ValidObjects == {x \in Inner : JsonLoads(x).ok /\ JsonLoads(x).val.t = "dict"}

C12_ProseThenFenceGraded ==
    \A x \in ValidObjects :
        (GotText /\ ValidSubmission /\ input.model.text = ProseThenFence(x))
            => /\ ai_feedback_data = JsonLoads(x).val
               /\ Outcome = "graded"


\* C13: when the parsed JSON carries a criterion score or an overall_rating
\* outside 0-100, no range validation is applied: the stored feedback JSON
\* and the stored overall rating carry exactly the parsed numbers and the
\* outcome is still graded.
RECURSIVE HasOutOfRange(_)
RECURSIVE AnyMemberOutOfRange(_, _)

AnyMemberOutOfRange(d, i) ==
    IF i > Len(d) THEN FALSE
    ELSE HasOutOfRange(d[i][2]) \/ AnyMemberOutOfRange(d, i + 1)

HasOutOfRange(v) ==
    IF v.t = "num" THEN v.n < 0 \/ v.n > 100
    ELSE IF v.t = "dict" THEN AnyMemberOutOfRange(v.d, 1)
    ELSE FALSE

ParsedOutOfRange == StatusOk /\ HasOutOfRange(JsonLoads(loads[1]).val)

C13_OutOfRangePassesThrough ==
    (ValidSubmission /\ ParsedOutOfRange /\ essays # <<>>)
        => /\ essays[Len(essays)].ai_feedback_json = Dumps(JsonLoads(loads[1]).val)
           /\ essays[Len(essays)].overall_rating
                = DictGet(JsonLoads(loads[1]).val.d, Key.OverallRating)
           /\ Outcome = "graded"


\* C14: every feedback payload stored for a failed grading (API error or
\* parse error) is a JSON object with a string "error" field and at most one
\* further field, "raw_response", whose value is a string.
IsStringAtom(tok) == tok.k = "atom" /\ tok.v.t \in {"str", "msg"}

FailurePayload(feedback) ==
    /\ Len(feedback) \in {5, 9}
    /\ feedback[1] = Tok.LBrace
    /\ feedback[2] = TokKey(Key.Error)
    /\ feedback[3] = Tok.Colon
    /\ IsStringAtom(feedback[4])
    /\ Len(feedback) = 9
          => /\ feedback[5] = Tok.Comma
             /\ feedback[6] = TokKey(Key.RawResponse)
             /\ feedback[7] = Tok.Colon
             /\ IsStringAtom(feedback[8])
    /\ feedback[Len(feedback)] = Tok.RBrace

FailedGrading == Done /\ ended = "rerun" /\ ~StatusOk

C14_FailurePayloadShape ==
    FailedGrading
        => \A i \in 1..Len(essays) : FailurePayload(essays[i].ai_feedback_json)

\* the guarded model call raised and the essay was stored with its payload
C14_Witness ==
    /\ FailedGrading
    /\ ValidSubmission
    /\ input.model.third = "raises"
    /\ essays # <<>>
    /\ Len(essays[1].ai_feedback_json) = 9


\* C15: when converting the content to Markdown raises, the placeholder is
\* taken as the normalized content and the run continues: the model is
\* still invoked and the essay is still written, with the placeholder as
\* its content.
C15_ConversionFailureNotFatal ==
    (Done /\ ValidSubmission /\ input.md_raises)
        => /\ ModelCalls # <<>>
           /\ \A i \in 1..Len(ModelCalls) : ModelCalls[i].essay = ConversionFallback
           /\ Len(SaveCalls) = 1
           /\ SaveCalls[1].essay = ConversionFallback


\* C16: in every execution of process_and_submit_essay that writes a record
\* the steps run in the order normalize, model call, store write: the model
\* is called for the normalized content, the write is the last call and
\* comes after the model calls have returned, and the feedback and the
\* rating written are derived from the result of the assessment.
NormalizedContent == IF input.md_raises THEN ConversionFallback ELSE md(input.html)

WroteRecord == Done /\ essays # <<>>

C16_NormalizeCallWrite ==
    WroteRecord
        => /\ Len(events) >= 2
           /\ \A i \in 1..(Len(events) - 1) :
                  /\ events[i].op = "generate_content"
                  /\ events[i].essay = NormalizedContent
           /\ events[Len(events)].op = "save_essay_submission"
           /\ essays[1].content_markdown = NormalizedContent
           /\ ai_feedback_data # PyNone
           /\ essays[1].ai_feedback_json = Dumps(ai_feedback_data)
           /\ essays[1].overall_rating \in
                  {PyNone, DictGet(ai_feedback_data.d, Key.OverallRating)}
           /\ \A x \in ValidObjects :
                  input.model.text = Bare(x)
                      => essays[1].ai_feedback_json = Dumps(JsonLoads(x).val)

\* a record written with the feedback parsed from the response of the model
C16_Witness ==
    /\ WroteRecord
    /\ ValidSubmission
    /\ input.model.text = Bare(ObjRated)
    /\ essays[1].overall_rating = PyNum(78)
    /\ Len(ModelCalls) = 3


(***************************************************************************)
(* The essay view of one logged-in student: the sidebar buttons of lines   *)
(* 586-597 and the view of lines 975-1057.  A run of the view while an     *)
(* essay is being written takes two steps: RunEditor reads the clock and   *)
(* the editor (lines 995-1037), then one of ManualSubmit, TimerRerun and   *)
(* AutoSubmit ends the run (lines 1039-1056).  The clock counts in units   *)
(* of which TimeLimit make submission_time_limit_seconds.                  *)
(***************************************************************************)
TimeLimit == 2

MaxTime == 2

MaxEssays == 2

ViewBehaviours ==
    {Behaviour("raises", "returns", "raises", <<>>, FALSE),
     Behaviour("text", "returns", "raises", <<>>, FALSE),
     Behaviour("text", "returns", "text", Bare(ObjRated), FALSE),
     Behaviour("text", "returns", "text", Bare(TextProse), FALSE)}

ViewInputs ==
    [student_user_id : {PyNum(1)}, title : {<<>>}, html : {<<>>},
     md_raises : BOOLEAN, model : ViewBehaviours, db : DbBehaviours]

\* lines 551-562, the student being logged in and on the dashboard
ViewInit ==
    /\ pc = "idle"
    /\ input \in ViewInputs
    /\ now = 0
    /\ essays = <<>>
    /\ essay_started = FALSE
    /\ timer_start_time = PyNone
    /\ essay_title_input = <<>>
    /\ essay_content_html = <<>>
    /\ view = "student_dashboard"
    /\ messages = <<>>
    /\ events = <<>>
    /\ ai_feedback_data = PyNone
    /\ loads = <<>>
    /\ ended = ""
    /\ script = NoScript
    /\ time_up_warning = FALSE
    /\ proc = <<>>
    /\ listing = <<>>
    /\ report = <<>>
    /\ account = StudentAccount(Users[1])
    /\ users = Users

\* a run of the script starts with an empty page
NewRun ==
    /\ messages' = <<>>
    /\ events' = <<>>
    /\ ai_feedback_data' = PyNone
    /\ loads' = <<>>
    /\ ended' = ""
    /\ time_up_warning' = FALSE

\* lines 586-593: the sidebar button "Start New Essay"
NavNewEssay ==
    /\ pc = "idle"
    /\ LoggedInAs("student")
    /\ NewRun
    /\ view' = "student_essay"
    /\ essay_started' = FALSE
    /\ timer_start_time' = PyNone
    /\ essay_title_input' = <<>>
    /\ essay_content_html' = <<>>
    /\ UNCHANGED <<pc, input, auth_vars, now, essays, script, store_vars>>

\* lines 594-597: the sidebar button "View Past Submissions"
NavPastSubmissions ==
    /\ pc = "idle"
    /\ LoggedInAs("student")
    /\ NewRun
    /\ view' = "student_dashboard"
    /\ UNCHANGED <<pc, input, auth_vars, now, essays, essay_started, timer_start_time,
                   essay_title_input, essay_content_html, script, store_vars>>

\* line 985 with the title field shown while the essay is being written too
TypeTitleAnytime(title) ==
    /\ pc = "idle"
    /\ LoggedInAs("student")
    /\ view = "student_essay"
    /\ NewRun
    /\ essay_title_input' = title
    /\ UNCHANGED <<pc, input, auth_vars, now, essays, essay_started, timer_start_time,
                   essay_content_html, view, script, store_vars>>

\* line 985: the title field, the essay not started
TypeTitle(title) ==
    /\ pc = "idle"
    /\ LoggedInAs("student")
    /\ view = "student_essay"
    /\ ~essay_started
    /\ NewRun
    /\ essay_title_input' = title
    /\ UNCHANGED <<pc, input, auth_vars, now, essays, essay_started, timer_start_time,
                   essay_content_html, view, script, store_vars>>

\* lines 987-992 without the assignment of line 991
StartEssayNoTimer ==
    /\ pc = "idle"
    /\ LoggedInAs("student")
    /\ view = "student_essay"
    /\ ~essay_started
    /\ Strip(essay_title_input) # <<>>
    /\ Len(essays) < MaxEssays
    /\ NewRun
    /\ essay_started' = TRUE
    /\ essay_content_html' = <<>>
    /\ UNCHANGED <<pc, input, auth_vars, now, essays, timer_start_time, essay_title_input,
                   view, script, store_vars>>

\* lines 987-992: the start button, enabled under a title that is not blank
StartEssay ==
    /\ pc = "idle"
    /\ LoggedInAs("student")
    /\ view = "student_essay"
    /\ ~essay_started
    /\ Strip(essay_title_input) # <<>>
    /\ Len(essays) < MaxEssays
    /\ NewRun
    /\ essay_started' = TRUE
    /\ timer_start_time' = PyNum(now)
    /\ essay_content_html' = <<>>
    /\ UNCHANGED <<pc, input, auth_vars, now, essays, essay_title_input, view, script, store_vars>>

\* lines 997-998
TimeRemaining == TimeLimit - (now - timer_start_time.n)

\* lines 995-1037: the clock is read, the editor is given the content of the
\* session and returns its content, which is stored in the session, and the
\* words are counted; button: the submit button was clicked.  The md call of
\* line 1031 stands in no try: when it raises, the run ends there.
RunEditor(essay_html_content, button) ==
    /\ pc = "idle"
    /\ LoggedInAs("student")
    /\ view = "student_essay"
    /\ essay_started
    /\ essay_content_html' = essay_html_content
    /\ messages' = <<>>
    /\ events' = <<>>
    /\ ai_feedback_data' = PyNone
    /\ loads' = <<>>
    /\ time_up_warning' = FALSE
    /\ IF ContentPresent(essay_html_content) /\ input.md_raises
       THEN /\ ended' = "exception"
            /\ UNCHANGED <<pc, script>>
       ELSE /\ ended' = ""
            /\ pc' = "submit"
            /\ script' = [time_remaining |-> TimeRemaining, button |-> button,
                          value |-> essay_content_html,
                          essay_html_content |-> essay_html_content,
                          word_count |->
                              calculate_word_count(TempMarkdownForWc(essay_html_content))]
    /\ UNCHANGED <<input, auth_vars, now, essays, essay_started, timer_start_time,
                   essay_title_input, view, store_vars>>

\* line 1056 with the content the essay had when it was started
AutoCallStartContent ==
    process_and_submit_essay(account.current_user_id, essay_title_input, <<>>, input)

\* line 1042
ManualCall ==
    process_and_submit_essay(account.current_user_id, essay_title_input,
                             script.essay_html_content, input)

\* line 1056
AutoCall ==
    process_and_submit_essay(account.current_user_id, essay_title_input,
                             script.essay_html_content, input)

\* lines 1039-1042: time is left and the submit button was clicked
ManualSubmit ==
    /\ pc = "submit"
    /\ script.time_remaining > 0
    /\ script.button
    /\ ManualCall
    /\ pc' = "idle"
    /\ script' = NoScript
    /\ UNCHANGED <<input, auth_vars, time_up_warning, store_vars>>

\* lines 1046-1048: time is left, no click: sleep and rerun
TimerRerun ==
    /\ pc = "submit"
    /\ script.time_remaining > 0
    /\ ~script.button
    /\ pc' = "idle"
    /\ script' = NoScript
    /\ UNCHANGED <<input, auth_vars, now, essays, session, messages, events, ai_feedback_data,
                   loads, ended, time_up_warning, store_vars>>

\* lines 1049-1056: the time is up
AutoSubmit ==
    /\ pc = "submit"
    /\ script.time_remaining <= 0
    /\ essay_started
    /\ time_up_warning' = TRUE
    /\ AutoCall
    /\ pc' = "idle"
    /\ script' = NoScript
    /\ UNCHANGED <<input, auth_vars, store_vars>>

\* time passes
Tick ==
    /\ now < MaxTime
    /\ now' = now + 1
    /\ UNCHANGED <<pc, input, auth_vars, essays, session, messages, events, ai_feedback_data,
                   loads, ended, view_vars, store_vars>>

ViewNext ==
    \/ NavNewEssay
    \/ NavPastSubmissions
    \/ \E title \in {<<>>, <<" ">>, <<"T">>} : TypeTitle(title)
    \/ StartEssay
    \/ \E essay_html_content \in {<<>>, <<"<p>", "<br>", "</p>">>, <<" ">>, <<"H", "i">>},
          button \in BOOLEAN :
           RunEditor(essay_html_content, button)
    \/ ManualSubmit
    \/ TimerRerun
    \/ AutoSubmit
    \/ Tick

SpecView == ViewInit /\ [][ViewNext]_vars

Submitters == {1, 2}

MaxRows == 2


NoResponse == Behaviour("", "", "", <<>>, FALSE)

StoreBehaviours ==
    {Behaviour("raises", "returns", "raises", <<>>, FALSE),
     Behaviour("text", "returns", "text", Bare(ObjRated), FALSE),
     Behaviour("text", "returns", "text", Bare(TextProse), FALSE)}

\* the locals of a session in which no call is running
IdleProc ==
    [pc |-> "idle", title |-> <<>>, html |-> <<>>, essay_markdown |-> <<>>,
     response |-> NoResponse, ai_feedback_data |-> PyNone, submission_time |-> 0,
     messages |-> <<>>]

\* no list of essays and no report is on a page
NoListing == [student_user_id |-> PyNone, rows |-> <<>>, read |-> FALSE]

NoReport == [college_name |-> "", rows |-> {}, read |-> FALSE, filtered |-> {}, export |-> {}]

StoreInit ==
    /\ pc = "sessions"
    /\ input = [student_user_id |-> PyNone, title |-> <<>>, html |-> <<>>,
                md_raises |-> FALSE, model |-> NoResponse, db |-> "ok"]
    /\ now = 0
    /\ essays = <<>>
    /\ essay_started = FALSE
    /\ timer_start_time = PyNone
    /\ essay_title_input = <<>>
    /\ essay_content_html = <<>>
    /\ view = "student_essay"
    /\ messages = <<>>
    /\ events = <<>>
    /\ ai_feedback_data = PyNone
    /\ loads = <<>>
    /\ ended = ""
    /\ script = NoScript
    /\ time_up_warning = FALSE
    /\ proc = [s \in Submitters |-> IdleProc]
    /\ listing = NoListing
    /\ report = NoReport
    /\ account = [StudentAccount(Users[1]) EXCEPT !.logged_in = FALSE]
    /\ users = Users

\* what a step of a session leaves alone
StoreFrame ==
    UNCHANGED <<pc, input, auth_vars, now, session, messages, events, ai_feedback_data, loads,
                ended, view_vars>>

\* the run of the script that showed a list or a report has ended
PageGone ==
    /\ listing' = NoListing
    /\ report' = NoReport

\* lines 472-492: the checks and the conversion to Markdown
Begin(s, title, html) ==
    /\ pc = "sessions"
    /\ proc[s].pc = "idle"
    /\ Len(essays) + Cardinality({t \in Submitters : proc[t].pc # "idle"}) < MaxRows
    /\ proc' = [proc EXCEPT ![s] =
          IF Strip(title) = <<>>
          THEN [IdleProc EXCEPT !.messages = <<StMsg.NoTitle>>]
          ELSE IF ~ContentPresent(html)
          THEN [IdleProc EXCEPT !.messages = <<StMsg.NoContent>>]
          ELSE [IdleProc EXCEPT !.pc = "model", !.title = title, !.html = html,
                                !.essay_markdown = EssayMarkdown(html, FALSE)]]
    /\ UNCHANGED essays
    /\ PageGone
    /\ StoreFrame

\* the locals of session s once get_gemini_assessment has ended with a
Assessed(s, response, a) ==
    IF a.raised
    THEN IdleProc
    ELSE [proc[s] EXCEPT !.pc = "save", !.response = response,
                         !.ai_feedback_data = a.value,
                         !.messages = <<FeedbackMessage(a.value)>>]

\* line 496 and lines 502-528 with an assessment that every waiting session
\* takes as its own
ModelReturnsToAll(s, response) ==
    /\ pc = "sessions"
    /\ proc[s].pc = "model"
    /\ proc' = [t \in Submitters |->
          IF proc[t].pc = "model"
          THEN Assessed(t, response, get_gemini_assessment(response))
          ELSE proc[t]]
    /\ UNCHANGED essays
    /\ PageGone
    /\ StoreFrame

\* line 496 and lines 502-528: get_gemini_assessment ends, the model having
\* answered the calls of this session with response
ModelReturns(s, response) ==
    /\ pc = "sessions"
    /\ proc[s].pc = "model"
    /\ proc' = [proc EXCEPT ![s] = Assessed(s, response, get_gemini_assessment(response))]
    /\ UNCHANGED essays
    /\ PageGone
    /\ StoreFrame

\* lines 267-283: the clock is read, then the connection is opened
SaveBegin(s, connected) ==
    /\ pc = "sessions"
    /\ proc[s].pc = "save"
    /\ proc' = [proc EXCEPT ![s] =
          IF connected
          THEN [proc[s] EXCEPT !.pc = "insert", !.submission_time = now]
          ELSE [proc[s] EXCEPT !.pc = "reset", !.submission_time = now,
                               !.messages = @ \o <<StMsg.DbConnect, StMsg.SaveNoConnection>>]]
    /\ UNCHANGED essays
    /\ PageGone
    /\ StoreFrame

\* lines 284-291: the INSERT and the commit, or an error of the database
Insert(s, db) ==
    /\ pc = "sessions"
    /\ proc[s].pc = "insert"
    /\ LET saved == save_essay_submission(essays, proc[s].submission_time, db, PyNum(s),
                        proc[s].title, proc[s].essay_markdown,
                        FeedbackJsonStr(proc[s].ai_feedback_data),
                        OverallRating(proc[s].ai_feedback_data))
       IN  /\ essays' = saved.rows
           /\ proc' = [proc EXCEPT ![s].pc = "reset", ![s].messages = @ \o saved.messages]
    /\ PageGone
    /\ StoreFrame

\* lines 540-546: the session is reset and the script reruns
Reset(s) ==
    /\ pc = "sessions"
    /\ proc[s].pc = "reset"
    /\ proc' = [proc EXCEPT ![s] = IdleProc]
    /\ UNCHANGED essays
    /\ PageGone
    /\ StoreFrame

\* the bijections of 1..n: the orders in which n rows can be fetched
Orders(n) == {p \in [1..n -> 1..n] : \A i, j \in 1..n : p[i] = p[j] => i = j}

RECURSIVE InsertByTimeDesc(_, _)
InsertByTimeDesc(row, sorted) ==
    IF sorted = <<>> THEN <<row>>
    ELSE IF row.submission_time > Head(sorted).submission_time
         THEN <<row>> \o sorted
         ELSE <<Head(sorted)>> \o InsertByTimeDesc(row, Tail(sorted))

RECURSIVE InsertByTimeAsc(_, _)
InsertByTimeAsc(row, sorted) ==
    IF sorted = <<>> THEN <<row>>
    ELSE IF row.submission_time < Head(sorted).submission_time
         THEN <<row>> \o sorted
         ELSE <<Head(sorted)>> \o InsertByTimeAsc(row, Tail(sorted))

\* ORDER BY submission_time ASC
RECURSIVE OrderBySubmissionTimeAsc(_)
OrderBySubmissionTimeAsc(rows) ==
    IF rows = <<>> THEN <<>>
    ELSE InsertByTimeAsc(Head(rows), OrderBySubmissionTimeAsc(Tail(rows)))

\* ORDER BY submission_time DESC, line 312
RECURSIVE OrderBySubmissionTimeDesc(_)
OrderBySubmissionTimeDesc(rows) ==
    IF rows = <<>> THEN <<>>
    ELSE InsertByTimeDesc(Head(rows), OrderBySubmissionTimeDesc(Tail(rows)))

\* lines 309-310: the columns selected
StudentEssay(row) ==
    [id |-> row.id, title |-> row.title, content_markdown |-> row.content_markdown,
     submission_time |-> row.submission_time, ai_feedback_json |-> row.ai_feedback_json,
     overall_rating |-> row.overall_rating]

\* line 311: WHERE student_user_id = %s
OfStudent(rows, student_user_id) ==
    SelectSeq(rows, LAMBDA row : row.student_user_id = student_user_id)

Fetched(rows, p) == [i \in 1..Len(rows) |-> StudentEssay(rows[p[i]])]

\* lines 300-322 with ORDER BY submission_time ASC
get_student_essays_oldest_first(rows, db, student_user_id) ==
    IF student_user_id = PyNone \/ db # "ok" THEN {<<>>}
    ELSE {OrderBySubmissionTimeAsc(Fetched(OfStudent(rows, student_user_id), p)) :
            p \in Orders(Len(OfStudent(rows, student_user_id)))}

\* lines 300-322: the lists get_student_essays can return.  Rows of equal
\* submission_time come in any order.
get_student_essays(rows, db, student_user_id) ==
    IF student_user_id = PyNone \/ db # "ok" THEN {<<>>}
    ELSE {OrderBySubmissionTimeDesc(Fetched(OfStudent(rows, student_user_id), p)) :
            p \in Orders(Len(OfStudent(rows, student_user_id)))}

\* line 1063: the dashboard of student s reads the essays
GetStudentEssays(s, db) ==
    /\ pc = "sessions"
    /\ \E rows \in get_student_essays(essays, db, PyNum(s)) :
           listing' = [student_user_id |-> PyNum(s), rows |-> rows, read |-> db = "ok"]
    /\ report' = NoReport
    /\ UNCHANGED <<essays, proc>>
    /\ StoreFrame

\* lines 328-339: the essays joined with the students of the college (the
\* columns of student_profiles left out)
CollegeReport(row, user) ==
    [essay_id |-> row.id, essay_title |-> row.title, submission_time |-> row.submission_time,
     overall_rating |-> row.overall_rating, ai_feedback_json |-> row.ai_feedback_json,
     content_markdown |-> row.content_markdown, student_username |-> user.username,
     college_name |-> user.college_name]

\* lines 336-337: JOIN users u ON e.student_user_id = u.id
Joined(rows) ==
    {q \in (1..Len(rows)) \X (1..Len(users)) : rows[q[1]].student_user_id = users[q[2]].id}

\* lines 324-357: no ORDER BY, the rows come as a set
get_college_reports(rows, db, college_name) ==
    IF db # "ok" THEN {}
    ELSE {CollegeReport(rows[q[1]], users[q[2]]) :
            q \in {q \in Joined(rows) : /\ users[q[2]].college_name = college_name
                                        /\ users[q[2]].user_type = "student"}}

\* line 757 with the missing rating replaced by 0
FillNaZero(overall_rating) == IF overall_rating = PyNone THEN 0 ELSE overall_rating.n

\* line 757: pd.to_numeric(...).fillna(-1)
FillNa(overall_rating) == IF overall_rating = PyNone THEN -1 ELSE overall_rating.n

\* line 741: settings of the slider, which ranges from 0 to 100
SliderStops == {0, 50, 100}

\* lines 756-765: the rating made a number, and the rating filter (the name
\* filter of lines 761-764 left empty)
FilteredDf(reports, filter_rating_min, filter_rating_max) ==
    {[r EXCEPT !.overall_rating = PyNum(FillNa(r.overall_rating))] :
        r \in {r \in reports : /\ FillNa(r.overall_rating) >= filter_rating_min
                               /\ FillNa(r.overall_rating) <= filter_rating_max}}

\* lines 766-768: the rows to export, within the dates chosen, if any
ExportReadyDf(filtered, filter_date_start, filter_date_end) ==
    {r \in filtered :
        /\ filter_date_start # PyNone => r.submission_time >= filter_date_start.n
        /\ filter_date_end # PyNone => r.submission_time <= filter_date_end.n}

\* lines 727-771: the dashboard of the admin of a college reads the reports
\* and filters them
GetCollegeReports(college_name, db, filter_rating_min, filter_rating_max, filter_date_start, filter_date_end) ==
    /\ pc = "sessions"
    /\ filter_rating_min <= filter_rating_max
    /\ report' = [college_name |-> college_name,
                  rows |-> get_college_reports(essays, db, college_name),
                  read |-> db = "ok",
                  filtered |-> FilteredDf(get_college_reports(essays, db, college_name),
                                          filter_rating_min, filter_rating_max),
                  export |-> ExportReadyDf(
                                 FilteredDf(get_college_reports(essays, db, college_name),
                                            filter_rating_min, filter_rating_max),
                                 filter_date_start, filter_date_end)]
    /\ listing' = NoListing
    /\ UNCHANGED <<essays, proc>>
    /\ StoreFrame

StoreNext ==
    \/ \E s \in Submitters, title \in {<<>>, <<"T">>},
          html \in {<<"<p>", "<br>", "</p>">>, <<"H", "i">>} :
           Begin(s, title, html)
    \/ \E s \in Submitters, response \in StoreBehaviours : ModelReturns(s, response)
    \/ \E s \in Submitters, connected \in BOOLEAN : SaveBegin(s, connected)
    \/ \E s \in Submitters, db \in {"ok", "insert_raises"} : Insert(s, db)
    \/ \E s \in Submitters : Reset(s)
    \/ \E s \in Submitters, db \in {"ok", "no_connection"} : GetStudentEssays(s, db)
    \/ \E college_name \in {"c1", "c2"}, db \in {"ok", "no_connection"},
          filter_rating_min \in SliderStops, filter_rating_max \in SliderStops,
          filter_date_start \in {PyNone, PyNum(1)}, filter_date_end \in {PyNone} :
           GetCollegeReports(college_name, db, filter_rating_min, filter_rating_max,
                             filter_date_start, filter_date_end)
    \/ Tick

SpecStore == StoreInit /\ [][StoreNext]_vars

\* C18: two submissions by different students, interleaved at any step, are
\* independent: the record a submission has written carries the student id,
\* the title, the normalized content and the assessment result of that
\* submission, and a step of one session changes neither the locals
\* (content, result, messages) nor the records of the other student.
Wrote(s) ==
    /\ proc[s].pc = "reset"
    /\ \A i \in 1..Len(proc[s].messages) :
           proc[s].messages[i] \notin {StMsg.DbConnect, StMsg.SaveNoConnection, StMsg.SaveFailed}

LastRowOf(s) ==
    essays[CHOOSE i \in 1..Len(essays) :
               /\ essays[i].student_user_id = PyNum(s)
               /\ \A j \in (i + 1)..Len(essays) : essays[j].student_user_id # PyNum(s)]

ResultFor(response, row) ==
    /\ response.text = Bare(ObjRated)
          => /\ row.ai_feedback_json = Dumps(JsonLoads(ObjRated).val)
             /\ row.overall_rating = PyNum(78)
    /\ response.text = Bare(TextProse)
          => /\ row.ai_feedback_json = Dumps(ErrorDict(AiMsg.FormatIssue, PyStr(TextProse)))
             /\ row.overall_rating = PyNone

OwnRecord(s) ==
    Wrote(s)
        => /\ OfStudent(essays, PyNum(s)) # <<>>
           /\ LastRowOf(s).title = proc[s].title
           /\ LastRowOf(s).content_markdown = md(proc[s].html)
           /\ LastRowOf(s).submission_time = proc[s].submission_time
           /\ ResultFor(proc[s].response, LastRowOf(s))

OthersUntouched ==
    \A s, t \in Submitters :
        (s # t /\ proc'[t] # proc[t])
            => /\ proc'[s] = proc[s]
               /\ OfStudent(essays', PyNum(s)) = OfStudent(essays, PyNum(s))

C18_IndependentSubmissions ==
    /\ [](\A s \in Submitters : OwnRecord(s))
    /\ [][OthersUntouched]_vars

\* both students have written a record, their submissions overlapping and
\* the model having answered them differently
C18_Witness ==
    /\ Wrote(1)
    /\ Wrote(2)
    /\ Len(essays) = 2
    /\ proc[1].response.text # proc[2].response.text
    /\ essays[1].student_user_id # essays[2].student_user_id

\* C19: no operation updates or deletes an existing essay record: in every
\* step every record written before is still there with the same title,
\* content, feedback and rating, so the essays only grow.
C19_EssaysOnlyGrow ==
    [][/\ Len(essays') >= Len(essays)
       /\ \A i \in 1..Len(essays) : essays'[i] = essays[i]]_vars

\* a student has two records under the same title, and they have been read
C19_Witness ==
    /\ Len(essays) = 2
    /\ essays[1].student_user_id = essays[2].student_user_id
    /\ essays[1].title = essays[2].title
    /\ listing.read
    /\ Len(listing.rows) = 2

\* C20: after any sequence of submissions get_student_essays(student) returns
\* the essays of that student ordered by submission time, the newest first,
\* and no essay of another student.  (The list is empty when the table
\* cannot be read.)
C20_NewestFirstOwnOnly ==
    listing.student_user_id # PyNone
        => /\ \A i, j \in 1..Len(listing.rows) :
                  i < j => listing.rows[i].submission_time >= listing.rows[j].submission_time
           /\ \A i \in 1..Len(listing.rows) :
                  /\ listing.rows[i].id \in 1..Len(essays)
                  /\ essays[listing.rows[i].id].student_user_id = listing.student_user_id
                  /\ listing.rows[i] = StudentEssay(essays[listing.rows[i].id])
           /\ listing.read
                  => {listing.rows[i].id : i \in 1..Len(listing.rows)}
                       = {i \in 1..Len(essays) :
                              essays[i].student_user_id = listing.student_user_id}
           /\ listing.read
                  => Len(listing.rows)
                       = Cardinality({listing.rows[i].id : i \in 1..Len(listing.rows)})

\* the list of a student with two essays of different submission times: the
\* essay written last comes first
C20_Witness ==
    /\ listing.read
    /\ Len(listing.rows) = 2
    /\ listing.rows[1].submission_time > listing.rows[2].submission_time
    /\ listing.rows[1].id > listing.rows[2].id


(***************************************************************************)
(* One browser session from its first script run on: login and sign-up     *)
(* (lines 631-667), the sidebar (lines 566-625), logout (lines 360-372),   *)
(* the super admin's form (lines 685-706), the profile views and the       *)
(* student's essay view.  None is written "None" where the value is a      *)
(* string otherwise.                                                       *)
(***************************************************************************)
\* lines 551-556
NoAccount ==
    [logged_in |-> FALSE, user_type |-> "None", current_username |-> "None",
     current_user_id |-> PyNone, current_college_name |-> "None"]

\* lines 551-562, the schema initialized (lines 96-100: the default super
\* admin); the conversion and the database of the essays work, the model
\* raises at its first call or returns a text
SessionInit ==
    /\ pc = "idle"
    /\ input \in {x \in ViewInputs : /\ ~x.md_raises
                                     /\ x.db = "ok"
                                     /\ x.model.first = "raises" \/ x.model.text # <<>>}
    /\ now = 0
    /\ essays = <<>>
    /\ essay_started = FALSE
    /\ timer_start_time = PyNone
    /\ essay_title_input = <<>>
    /\ essay_content_html = <<>>
    /\ view = "login"
    /\ messages = <<>>
    /\ events = <<>>
    /\ ai_feedback_data = PyNone
    /\ loads = <<>>
    /\ ended = ""
    /\ script = NoScript
    /\ time_up_warning = FALSE
    /\ proc = <<>>
    /\ listing = <<>>
    /\ report = <<>>
    /\ account = NoAccount
    /\ users = <<UserRow(1, "mainadmin", <<"s", "u", "p", "e", "r", "1">>, "super_admin", "None")>>

\* a run of the script that shows the given messages and calls nothing
RunShowing(shown) ==
    /\ messages' = shown
    /\ events' = <<>>
    /\ ai_feedback_data' = PyNone
    /\ loads' = <<>>
    /\ ended' = ""
    /\ time_up_warning' = FALSE
    /\ UNCHANGED <<pc, input, now, essays, script, store_vars>>

\* a sidebar button that sets the view and reruns
Goto(target) ==
    /\ RunShowing(<<>>)
    /\ view' = target
    /\ UNCHANGED <<essay_started, timer_start_time, essay_title_input, essay_content_html,
                   auth_vars>>

\* lines 616-620
GotoSignup == pc = "idle" /\ ~account.logged_in /\ view = "login" /\ Goto("signup")

\* lines 621-625
GotoLogin == pc = "idle" /\ ~account.logged_in /\ view = "signup" /\ Goto("login")

\* lines 580-583
NavViewProfile == pc = "idle" /\ LoggedInAs("student") /\ Goto("student_view_profile")

\* lines 597-602
NavViewReports ==
    /\ pc = "idle"
    /\ LoggedInAs("college_admin") \/ LoggedInAs("super_admin")
    /\ Goto("dashboard")

\* lines 604-608
NavAdminManagement == pc = "idle" /\ LoggedInAs("super_admin") /\ Goto("super_admin_manage")

\* lines 927-930: the button "Edit Profile"
EditProfile ==
    /\ pc = "idle"
    /\ LoggedInAs("student")
    /\ view = "student_view_profile"
    /\ Goto("student_profile")

\* lines 964-970: the profile form, submitted; saved: the required fields
\* were filled and save_student_profile returned True
SaveProfile(saved) ==
    /\ pc = "idle"
    /\ LoggedInAs("student")
    /\ view = "student_profile"
    /\ Goto(IF saved THEN "student_view_profile" ELSE view)

\* lines 1063-1076: the dashboard of a student for whom get_student_essays
\* returned no essay, the button "Start your first essay!"
StartFirstEssay(db) ==
    /\ pc = "idle"
    /\ LoggedInAs("student")
    /\ view = "student_dashboard"
    /\ <<>> \in get_student_essays(essays, db, account.current_user_id)
    /\ RunShowing(<<>>)
    /\ view' = "student_essay"
    /\ essay_started' = FALSE
    /\ timer_start_time' = PyNone
    /\ essay_title_input' = <<>>
    /\ essay_content_html' = <<>>
    /\ UNCHANGED auth_vars

\* lines 360-372 with 'view' left out of keys_to_reset and without the
\* assignment of line 370
logout_view_kept ==
    /\ pc = "idle"
    /\ account.logged_in
    /\ RunShowing(<<StMsg.LoggedOut>>)
    /\ account' = NoAccount
    /\ view' = view
    /\ essay_started' = FALSE
    /\ timer_start_time' = PyNone
    /\ essay_title_input' = <<>>
    /\ essay_content_html' = <<>>
    /\ UNCHANGED users

\* lines 360-372 from the buttons of lines 611 and 1148, and the
\* initialization of lines 551-562 in the rerun
logout ==
    /\ pc = "idle"
    /\ account.logged_in
    /\ RunShowing(<<StMsg.LoggedOut>>)
    /\ account' = NoAccount
    /\ view' = "login"
    /\ essay_started' = FALSE
    /\ timer_start_time' = PyNone
    /\ essay_title_input' = <<>>
    /\ essay_content_html' = <<>>
    /\ UNCHANGED users

\* lines 171-191: the session of the user found, and the view of its type
LoggedIn(user) ==
    /\ RunShowing(<<StMsg.LoggedIn>>)
    /\ account' = StudentAccount(user)
    /\ IF user.user_type = "student"
       THEN /\ view' = "student_essay"
            /\ essay_started' = FALSE
            /\ timer_start_time' = PyNone
            /\ essay_title_input' = <<>>
            /\ essay_content_html' = <<>>
       ELSE /\ view' = "dashboard"
            /\ UNCHANGED <<essay_started, timer_start_time, essay_title_input,
                           essay_content_html>>

\* lines 161-205 from the login form of lines 636-645
authenticate_user(username, password, db) ==
    /\ pc = "idle"
    /\ ~account.logged_in
    /\ view = "login"
    /\ UNCHANGED users
    /\ IF db = "ok" /\ \E i \in 1..Len(users) : /\ users[i].username = username
                                                 /\ users[i].password_hash.of = password
       THEN LoggedIn(users[CHOOSE i \in 1..Len(users) : users[i].username = username])
       ELSE /\ RunShowing(<<CASE db = "no_connection" -> StMsg.DbConnect
                              [] db = "insert_raises" -> StMsg.AuthError
                              [] OTHER -> StMsg.InvalidLogin>>)
            /\ UNCHANGED <<session, account>>

\* lines 121-140; "insert_raises": execute raises an error that is not the
\* violation of the unique username
create_user(rows, db, username, password, user_type, college_name) ==
    IF db = "no_connection" THEN [ok |-> FALSE, rows |-> rows, message |-> StMsg.CreateNoConnection]
    ELSE IF db = "insert_raises" THEN [ok |-> FALSE, rows |-> rows, message |-> StMsg.CreateFailed]
    ELSE IF \E i \in 1..Len(rows) : rows[i].username = username
    THEN [ok |-> FALSE, rows |-> rows, message |-> StMsg.UsernameExists]
    ELSE [ok |-> TRUE,
          rows |-> Append(rows, UserRow(Len(rows) + 1, username, password, user_type,
                                        college_name)),
          message |-> StMsg.Created]

\* lines 656-667 and 698-706: the checks of a submitted form, then create_user
SubmitForm(username, password, user_type, college_name, db, target) ==
    IF username = "" \/ password = <<>> \/ college_name = ""
    THEN RunShowing(<<StMsg.FillAll>>) /\ UNCHANGED <<session, auth_vars>>
    ELSE IF Len(password) < 6
    THEN RunShowing(<<StMsg.ShortPassword>>) /\ UNCHANGED <<session, auth_vars>>
    ELSE /\ RunShowing(<<IF create_user(users, db, username, password, user_type,
                                        college_name).ok
                         THEN StSuccess(StMsg.Created)
                         ELSE StError(create_user(users, db, username, password, user_type,
                                                  college_name).message)>>)
         /\ users' = create_user(users, db, username, password, user_type, college_name).rows
         /\ view' = (IF create_user(users, db, username, password, user_type,
                                    college_name).ok THEN target ELSE view)
         /\ UNCHANGED <<essay_started, timer_start_time, essay_title_input,
                        essay_content_html, account>>

\* lines 646-667 with the type of the account taken from the college field
SignupWithType(username, password, college_name, db) ==
    /\ pc = "idle"
    /\ ~account.logged_in
    /\ view = "signup"
    /\ SubmitForm(username, password, "college_admin", college_name, db, "login")

\* lines 646-667: the sign-up form
Signup(username, password, college_name, db) ==
    /\ pc = "idle"
    /\ ~account.logged_in
    /\ view = "signup"
    /\ SubmitForm(username, password, "student", college_name, db, "login")

\* lines 685-706: the form of the super admin, which leaves the view as it is
CreateCollegeAdmin(username, password, college_name, db) ==
    /\ pc = "idle"
    /\ LoggedInAs("super_admin")
    /\ view = "super_admin_manage"
    /\ SubmitForm(username, password, "college_admin", college_name, db, view)

SessionNext ==
    \/ ViewNext
    \/ GotoSignup
    \/ GotoLogin
    \/ NavViewProfile
    \/ NavViewReports
    \/ NavAdminManagement
    \/ EditProfile
    \/ \E saved \in BOOLEAN : SaveProfile(saved)
    \/ \E db \in DbBehaviours : StartFirstEssay(db)
    \/ logout
    \/ \E username \in {"mainadmin", "amy", "bo"},
          password \in {<<"s", "u", "p", "e", "r", "1">>, <<"s", "e", "c", "r", "e", "t">>},
          db \in DbBehaviours :
           authenticate_user(username, password, db)
    \/ \E username \in {"", "amy", "mainadmin"},
          password \in {<<>>, <<"p", "w">>, <<"s", "e", "c", "r", "e", "t">>},
          college_name \in {"", "c1"}, db \in DbBehaviours :
           \/ Signup(username, password, college_name, db)
           \/ CreateCollegeAdmin(username, password, college_name, db)

SpecSession == SessionInit /\ [][SessionNext]_vars


(***************************************************************************)
(* The word count of the essay view, lines 1030-1033, for every editor     *)
(* content of at most MaxLen tokens: text, whitespace and line breaks.     *)
(***************************************************************************)
MaxLen == 4

WordsInit ==
    /\ pc = "ready"
    /\ input \in [html : UNION {[1..n -> {"a", " ", "\n", "<br>"}] : n \in 0..MaxLen},
                  md_raises : {FALSE}]
    /\ now = 0
    /\ essays = <<>>
    /\ essay_started = TRUE
    /\ timer_start_time = PyNum(0)
    /\ essay_title_input = <<"T">>
    /\ essay_content_html = input.html
    /\ view = "student_essay"
    /\ messages = <<>>
    /\ events = <<>>
    /\ ai_feedback_data = PyNone
    /\ loads = <<>>
    /\ ended = ""
    /\ script = NoScript
    /\ time_up_warning = FALSE
    /\ proc = <<>>
    /\ listing = <<>>
    /\ report = <<>>
    /\ account = StudentAccount(Users[1])
    /\ users = Users

\* lines 1031-1032
ShowWordCount ==
    /\ pc = "ready"
    /\ pc' = "done"
    /\ script' = [script EXCEPT !.essay_html_content = input.html,
                                !.word_count = calculate_word_count(TempMarkdownForWc(input.html))]
    /\ UNCHANGED <<input, auth_vars, now, essays, session, messages, events, ai_feedback_data,
                   loads, ended, time_up_warning, store_vars>>

SpecWords == WordsInit /\ [][ShowWordCount]_vars

\* the words of a text: the places where a maximal run of non-whitespace starts
WordStarts(text) ==
    {i \in 1..Len(text) : text[i] \notin Whitespace /\ (i = 1 \/ text[i - 1] \in Whitespace)}

\* C21: calculate_word_count returns the number of maximal non-whitespace
\* runs of the normalized text, and 0 for the empty string and for a text
\* made only of whitespace.
C21_WordCount ==
    Done =>
        /\ script.word_count = Cardinality(WordStarts(TempMarkdownForWc(input.html)))
        /\ (\A i \in 1..Len(TempMarkdownForWc(input.html)) :
                TempMarkdownForWc(input.html)[i] \in Whitespace) => script.word_count = 0

\* two words counted in a text that starts with whitespace and has a run of
\* two whitespace characters between the words
C21_Witness ==
    /\ Done
    /\ input.html = <<" ", "a", "<br>", "a">>
    /\ script.word_count = 2


(***************************************************************************)
(* Claims about the session state one call leaves (Spec)                   *)
(***************************************************************************)
\* the reset of lines 539-546 has been made
EssayStateReset ==
    /\ ~essay_started
    /\ timer_start_time = PyNone
    /\ essay_title_input = <<>>
    /\ essay_content_html = <<>>
    /\ view = "student_dashboard"

\* C22: once process_and_submit_essay has reached the call of
\* save_essay_submission, the essay state of the session is reset and the
\* view is student_dashboard, whether the save returned True or False; after
\* a failed save the session no longer holds the draft and the store has no
\* record of it.
C22_ResetWhateverTheSave ==
    (Done /\ SaveCalls # <<>>) =>
        /\ EssayStateReset
        /\ ended = "rerun"
        /\ Len(SaveCalls) = 1
        /\ input.db # "ok" => essays = <<>>
        /\ input.db = "ok" => Len(essays) = 1

\* a save that failed was followed by the reset
C22_Witness ==
    /\ Done
    /\ SaveCalls # <<>>
    /\ input.db = "insert_raises"
    /\ input.html = <<"H", "i">>
    /\ EssayStateReset
    /\ essays = <<>>

\* the run showed one of the messages of the early returns of lines 472-492
RejectionShown(shown) ==
    /\ shown # <<>>
    /\ shown[1] \in {StMsg.NoUser, StMsg.NoTitle, StMsg.NoContent}

\* C25: a submission rejected by validation (missing student id, empty
\* title, empty content) leaves essay_started, timer_start_time,
\* essay_title_input, essay_content_html and view as they were and triggers
\* no rerun to the dashboard.
C25_RejectionLeavesSession ==
    [][RejectionShown(messages') =>
           /\ UNCHANGED <<essay_started, timer_start_time, essay_title_input,
                          essay_content_html, view, essays>>
           /\ ended' = "return"
           /\ events' = <<>>]_vars

\* a call with an empty paragraph as its content was rejected, the essay
\* still started, the title and the content still in the session
C25_Witness ==
    /\ Done
    /\ RejectionShown(messages)
    /\ input.student_user_id # PyNone
    /\ input.title = <<"T">>
    /\ input.html = <<"<p>", "<br>", "</p>">>
    /\ essay_started
    /\ essay_title_input = <<"T">>
    /\ essay_content_html = <<"<p>", "<br>", "</p>">>
    /\ view = "student_essay"


(***************************************************************************)
(* Claims about the session (SpecSession)                                  *)
(***************************************************************************)
\* C26: in every reachable session state, after any sequence of login,
\* start-essay, navigation, submit and logout actions, essay_started being
\* true implies that timer_start_time is set, so the remaining-time
\* computation of the essay view never works on a missing start time.
C26_StartedHasTimer ==
    essay_started => timer_start_time # PyNone /\ timer_start_time.t = "num"

\* a student logged in, started an essay and submitted it; the model call
\* raised, so the essay is still being written, its start time kept
C26_Witness ==
    /\ LoggedInAs("student")
    /\ essay_started
    /\ timer_start_time = PyNum(0)
    /\ now = 1
    /\ ended = "exception"

\* C27: in every reachable session state essay_started being true implies
\* that essay_title_input is non-empty after trim, and no submit issued from
\* the essay view is rejected for an empty title.
C27_StartedHasTitle ==
    /\ essay_started => Strip(essay_title_input) # <<>>
    /\ ~Shown(StMsg.NoTitle)

\* a submit from the essay view, with an empty editor, was rejected for its
\* content, the title being there
C27_Witness ==
    /\ LoggedInAs("student")
    /\ essay_started
    /\ essay_title_input = <<"T">>
    /\ Shown(StMsg.NoContent)

\* the views of a student
StudentViews == {"student_essay", "student_dashboard", "student_profile", "student_view_profile"}

\* C28: in every reachable session state the view fits the login state and
\* the role: not logged in, the view is login or signup; a logged-in student
\* has one of the student views; a college_admin has the view dashboard;
\* only a super_admin has the view super_admin_manage.
C28_ViewFitsRole ==
    /\ ~account.logged_in => view \in {"login", "signup"}
    /\ LoggedInAs("student") => view \in StudentViews
    /\ LoggedInAs("college_admin") => view = "dashboard"
    /\ view = "super_admin_manage" => LoggedInAs("super_admin")
    /\ account.logged_in => account.user_type \in {"student", "college_admin", "super_admin"}

\* the college admin the super admin created has logged in
C28_Witness ==
    /\ LoggedInAs("college_admin")
    /\ account.current_username = "amy"
    /\ account.current_college_name = "c1"
    /\ view = "dashboard"

\* the rows a step adds to the users table
NewUsers == {users'[i] : i \in (Len(users) + 1)..Len(users')}

\* C29: no action of a session that is not logged in as super_admin creates
\* a user of another type than 'student': the sign-up form creates students,
\* and a college_admin is created only from the super_admin_manage view of a
\* logged-in super_admin.
C29_OnlySuperAdminMakesAdmins ==
    [][/\ Len(users') >= Len(users)
       /\ \A i \in 1..Len(users) : users'[i] = users[i]
       /\ \A u \in NewUsers :
            /\ u.user_type \in {"student", "college_admin"}
            /\ ~LoggedInAs("super_admin") => u.user_type = "student" /\ view = "signup"
            /\ u.user_type = "college_admin" =>
                   LoggedInAs("super_admin") /\ view = "super_admin_manage"]_vars

\* the super admin has created a college admin
C29_Witness ==
    /\ LoggedInAs("super_admin")
    /\ view = "super_admin_manage"
    /\ Len(users) = 2
    /\ users[2].user_type = "college_admin"
    /\ messages = <<StSuccess(StMsg.Created)>>

(***************************************************************************)
(* Claims about the essay view, checked under SpecView                     *)
(***************************************************************************)

\* C23: between one 'Start Writing' and the next reset of the essay state at
\* most one essay record is written: every step that changes the essays
\* table is taken with the essay started, appends exactly one record and is
\* the step that resets the essay state, so no sequence of manual submits,
\* timer reruns and auto-submits writes twice for one started essay.
C23_OneRecordPerStart ==
    [][essays' # essays =>
          /\ essay_started
          /\ Len(essays') = Len(essays) + 1
          /\ SubSeq(essays', 1, Len(essays)) = essays
          /\ ~essay_started'
          /\ timer_start_time' = PyNone
          /\ essay_content_html' = <<>>]_vars

\* two essays were started and submitted, one record each
C23_Witness ==
    /\ Len(essays) = 2
    /\ ~essay_started
    /\ ended = "rerun"
    /\ Len(SaveCalls) = 1

\* C24: once the deadline has passed with the essay started and the editor
\* empty (or holding the empty-paragraph markup), the automatic submission
\* writes no record and leaves essay_started true, in that run and in every
\* later one: the writing state is left through navigation only, never
\* through the automatic submission.  script.essay_html_content is the
\* content submitted, script.value the content the editor was given for the
\* run, which is what the session held when the deadline had passed.
C24_BlankDeadlineNeverSubmits ==
    [][(AutoSubmit /\ ({script.value, script.essay_html_content}
                           \cap {<<>>, EmptyParagraph} # {})) =>
          /\ essays' = essays
          /\ essay_started'
          /\ view' = "student_essay"]_vars

(***************************************************************************)
(* Claims about the report of the college admin, checked under SpecStore   *)
(***************************************************************************)

\* the essays a list of report rows shows
EssaysShown(rows) == {essays[r.essay_id] : r \in rows}

\* C30: an essay stored without a rating (overall_rating null) never appears
\* in the report list or the export of the college admin, whatever the
\* rating filter is set to: the missing rating is replaced by -1 and the
\* range of the filter, whose lower bound is at least 0, excludes it.
C30_UnratedNeverReported ==
    /\ \A e \in EssaysShown(report.filtered \cup report.export) : e.overall_rating # PyNone
    /\ \A r \in report.filtered \cup report.export : r.overall_rating.n >= 0
    /\ report.export \subseteq report.filtered

\* the report of a college that has a rated and an unrated essay was read:
\* the list shows the rated one only
C30_Witness ==
    /\ report.read
    /\ \E r \in report.rows : r.overall_rating = PyNone
    /\ \E r \in report.rows : r.overall_rating = PyNum(78)
    /\ Cardinality(report.filtered) = 1
    /\ report.export = report.filtered

=============================================================================
